---- MODULE Spec2Model ----
(***************************************************************************)
(* SchemaRegistryClient (sdks/python/schema_registry/client.py): the       *)
(* client's TTL cache, its retry wrapper and its error mapping, as a state *)
(* machine.  A call is started by the caller, suspends at the network      *)
(* await (pc = "inflight") and at the backoff sleep (pc = "backoff"), and  *)
(* ends with a value or an exception (pc = "done").                        *)
(***************************************************************************)
EXTENDS Integers, Sequences, FiniteSets, TLC

VARIABLES
    max_retries,   \* self.max_retries, fixed at construction
    cache,         \* self._cache: entries in least-recently-used order
    calls,         \* one record per caller: the call it runs or last ran
    closed,        \* close() has run: self._client is closed
    lastGet        \* history: per id, the last record a get_schema call cached

vars == <<max_retries, cache, calls, closed, lastGet>>

----------------------------------------------------------------------------
(* Bounds of the model and constants of the program.                       *)

\* TTLCache(ttl=cache_ttl): a construction parameter, small here
cache_ttl == 2
\* TTLCache(maxsize=cache_maxsize): a construction parameter, small here
cache_maxsize == 2
\* stop_after_attempt(3)
StopAfterAttempt == 3
\* wait_exponential(multiplier=1, min=1, max=10)
WaitMultiplier == 1
WaitMin == 1
WaitMax == 10

----------------------------------------------------------------------------
(* Strings.  A version is a sequence of characters, so that it can be      *)
(* split; Str joins it into the string the f-strings of the client build.  *)

RECURSIVE Str(_)
Str(s) == IF s = <<>> THEN "" ELSE Head(s) \o Str(Tail(s))

\* str.isdigit(): true of a non-empty string of digit characters; Unicode
\* digits such as SUPERSCRIPT TWO ("sup2") are digit characters too.
IsDigitChar(ch) == ch \in {"0", "1", "2", "3", "4", "5", "6", "7", "8", "9", "sup2"}

isdigit(part) == part # <<>> /\ \A i \in 1..Len(part) : IsDigitChar(part[i])

\* str.split("."): the parts between the dots, empty parts kept.
RECURSIVE split(_)
split(s) ==
    IF \A i \in 1..Len(s) : s[i] # "."
    THEN <<s>>
    ELSE LET i == CHOOSE j \in 1..Len(s) :
                      s[j] = "." /\ \A k \in 1..(j - 1) : s[k] # "."
         IN <<SubSeq(s, 1, i - 1)>> \o split(SubSeq(s, i + 1, Len(s)))

\* Schema.validate_version: TRUE when the validator returns v, FALSE when it
\* raises ValueError (which pydantic turns into its own ValidationError).
validate_version(v) ==
    LET parts == split(v)
    IN  /\ Len(parts) = 3
        /\ \A i \in 1..Len(parts) : isdigit(parts[i])

----------------------------------------------------------------------------
(* Cache keys, as the f-strings of the client build them.                  *)

\* get_schema / delete_schema: f"schema:{schema_id}"
IdKey(schema_id) == "schema:" \o schema_id

\* get_schema_by_version: f"schema:{namespace}.{name}:{version}"
VersionKey(namespace, name, version) ==
    "schema:" \o namespace \o "." \o name \o ":" \o Str(version)

\* register_schema: f"{schema.namespace}.{schema.name}"
RegisterKey(namespace, name) == namespace \o "." \o name

----------------------------------------------------------------------------
(* cachetools.TTLCache as the client uses it.  An entry is                 *)
(* [key, value, left]; the sequence is in least-recently-used order.       *)
(* Time is kept relative: left is expires - timer(), the time the entry    *)
(* still has (0 once expired), which the clock's tick counts down.  An     *)
(* expired entry stays in the sequence until TTLCache.expire drops it.     *)

\* TTLCache.expire(time): drop the entries with expires <= time
Expire(c) == SelectSeq(c, LAMBDA e : e.left > 0)

Remove(c, k) == SelectSeq(c, LAMBDA e : e.key # k)

Entry(c, k) == c[CHOOSE i \in 1..Len(c) : c[i].key = k]

HasKey(c, k) == \E i \in 1..Len(c) : c[i].key = k

\* a membership test that forgets the expiry
ContainsIgnoringExpiry(c, k) == HasKey(c, k)

\* key in self._cache: TTLCache.__contains__, present and not expired
Contains(c, k) == HasKey(c, k) /\ Entry(c, k).left > 0

\* self._cache[key]: TTLCache.__getitem__ moves the key to the
\* most-recently-used end (the caller has checked Contains)
GetItem(c, k) == Remove(c, k) \o <<Entry(c, k)>>

RECURSIVE PopUntilFits(_)
PopUntilFits(c) == IF Len(c) + 1 > cache_maxsize THEN PopUntilFits(Tail(c)) ELSE c

\* self._cache[key] = value: TTLCache.__setitem__ expires, makes room by
\* popping least-recently-used entries unless the key is present, and
\* (re)inserts the key at the most-recently-used end with a fresh expiry
SetItem(c, k, v) ==
    LET live == Expire(c)
        room == IF HasKey(live, k) THEN Remove(live, k) ELSE PopUntilFits(live)
    IN  room \o <<[key |-> k, value |-> v, left |-> cache_ttl]>>

\* an invalidation that deletes nothing
EvictNothing(c, k) == c

\* if key in self._cache: del self._cache[key]
Evict(c, k) == IF Contains(c, k) THEN Remove(c, k) ELSE c

Keys(c) == {c[i].key : i \in 1..Len(c)}

LiveKeys(c) == {k \in Keys(c) : Contains(c, k)}

----------------------------------------------------------------------------
(* Exceptions.  One record shape for every exception the client can end    *)
(* with: status_code is 0 and the carried fields are empty where the       *)
(* exception class has no such attribute.                                  *)

Exc(kind, status_code, message, schema_id, incompatibilities, retry_after) ==
    [kind |-> kind, status_code |-> status_code, message |-> message,
     schema_id |-> schema_id, incompatibilities |-> incompatibilities,
     retry_after |-> retry_after]

NoExc == Exc("", 0, "", "", <<>>, <<>>)

\* an exception of a class outside exceptions.py
Raised(kind) == Exc(kind, 0, "", "", <<>>, <<>>)

AuthenticationError(message) ==
    Exc("AuthenticationError", 401, message, "", <<>>, <<>>)

AuthorizationError(message) ==
    Exc("AuthorizationError", 403, message, "", <<>>, <<>>)

SchemaNotFoundError(schema_id) ==
    Exc("SchemaNotFoundError", 404, "Schema not found: " \o schema_id,
        schema_id, <<>>, <<>>)

IncompatibleSchemaError(incompatibilities) ==
    Exc("IncompatibleSchemaError", 409, "Schema compatibility check failed:",
        "", incompatibilities, <<>>)

\* retry_after is <<>> for None and <<n>> for the integer n
RateLimitError(retry_after) ==
    Exc("RateLimitError", 429, "Rate limit exceeded", "", <<>>, retry_after)

ServerError(message) == Exc("ServerError", 500, message, "", <<>>, <<>>)

SchemaRegistryError(message, status_code) ==
    Exc("SchemaRegistryError", status_code, message, "", <<>>, <<>>)

\* httpx.TimeoutException, raised by the awaited request
TimeoutException == Raised("TimeoutException")

\* tenacity.RetryError, which wraps the last attempt; message names its kind
RetryError(last) == Exc("RetryError", 0, last.kind, "", <<>>, <<>>)

----------------------------------------------------------------------------
(* Responses.  status 0 stands for a request that timed out.  A body is    *)
(* json = "object" (a JSON object, has_message / has_incompatibilities say *)
(* which fields it has), "array" (JSON, but no object) or "invalid" (not   *)
(* JSON); text is the raw body; retry_after is the Retry-After header,     *)
(* <<>> when absent, else its characters.                                  *)

is_success(status) == status >= 200 /\ status <= 299

\* int(s) of the header: <<n>>, or <<>> when int() raises ValueError
DigitValue(ch) ==
    CASE ch = "0" -> 0 [] ch = "1" -> 1 [] ch = "2" -> 2 [] ch = "3" -> 3
      [] ch = "4" -> 4 [] ch = "5" -> 5 [] ch = "6" -> 6 [] ch = "7" -> 7
      [] ch = "8" -> 8 [] ch = "9" -> 9 [] OTHER -> -1

RECURSIVE IntOf(_, _)
IntOf(s, acc) ==
    IF s = <<>> THEN <<acc>>
    ELSE IF DigitValue(Head(s)) < 0 THEN <<>>
    ELSE IntOf(Tail(s), 10 * acc + DigitValue(Head(s)))

\* lines 127-131: the body's "message" when the body is a JSON object that
\* has one, the raw text otherwise (also when .get raises on a non-object)
MessageOf(r) ==
    IF r.json = "object" /\ r.has_message THEN r.message ELSE r.text

\* _handle_response_error: NoExc when it returns, else what it raises
HandleResponseError(r) ==
    IF is_success(r.status) THEN NoExc
    ELSE LET message == MessageOf(r)
         IN  CASE r.status = 401 -> AuthenticationError(message)
               [] r.status = 403 -> AuthorizationError(message)
               [] r.status = 404 -> SchemaNotFoundError(message)
               [] r.status = 409 ->
                    IF r.json = "invalid" THEN Raised("UnboundLocalError")
                    ELSE IF r.json = "array" THEN Raised("AttributeError")
                    ELSE IncompatibleSchemaError(
                             IF r.has_incompatibilities
                             THEN r.incompatibilities ELSE <<message>>)
               [] r.status = 429 ->
                    IF r.retry_after = <<>> THEN RateLimitError(<<>>)
                    ELSE IF IntOf(r.retry_after, 0) = <<>>
                         THEN Raised("ValueError")
                         ELSE RateLimitError(IntOf(r.retry_after, 0))
               [] r.status >= 500 -> ServerError(message)
               [] OTHER -> SchemaRegistryError(message, r.status)

----------------------------------------------------------------------------
(* The retry decorator every operation carries (tenacity).                 *)

\* a retry predicate that retries on every error of the registry
ShouldRetryAnyError(e) == e.kind # ""

\* a retry predicate that also retries a cancelled attempt
ShouldRetryCancelled(e) ==
    e.kind \in {"TimeoutException", "ServerError", "CancelledError"}

\* retry_if_exception_type((httpx.TimeoutException, ServerError))
ShouldRetry(e) == e.kind \in {"TimeoutException", "ServerError"}

\* a stop condition that allows one attempt more
ShouldStopLate(attempt) == attempt > StopAfterAttempt

\* stop_after_attempt(3)
ShouldStop(attempt) == attempt >= StopAfterAttempt

RECURSIVE Pow2(_)
Pow2(n) == IF n <= 0 THEN 1 ELSE 2 * Pow2(n - 1)

Max(a, b) == IF a >= b THEN a ELSE b
Min(a, b) == IF a <= b THEN a ELSE b

\* an exponential wait whose exponent is the attempt number: 2, 4, ...
WaitFromTwo(attempt) ==
    Max(Max(0, WaitMin), Min(WaitMultiplier * Pow2(attempt), WaitMax))

\* wait_exponential(multiplier=1, min=1, max=10) after attempt number n
Wait(attempt) ==
    Max(Max(0, WaitMin), Min(WaitMultiplier * Pow2(attempt - 1), WaitMax))

\* what the caller gets when the attempts are used up: reraise is not set,
\* so tenacity raises RetryError from the last attempt's exception
Exhausted(e) == RetryError(e)

----------------------------------------------------------------------------
(* Calls.                                                                  *)
(*   op, schema_id, namespace, name, version, use_cache: the call          *)
(*   pc:       "idle" | "inflight" | "backoff" | "done"                    *)
(*   outcomes: the status of each finished network attempt (0: timeout,    *)
(*             -1: cancelled)                                              *)
(*   response: the response the latest attempt received (NoResponse: none) *)
(*   raised:   what the latest attempt raised (NoExc: nothing)             *)
(*   sleep:    the time the backoff sleep still lasts                      *)
(*   result:   what the caller received: a value or an exception           *)
(*   age:      the age of the cache entry the call was served, else -1     *)
(*   evicted:  history: the call's del self._cache[cache_key] ran          *)
(*   expect:   history, for get_schema: the record an earlier get_schema   *)
(*             of the id cached less than cache_ttl ago (on), and whether  *)
(*             nothing cleared or evicted it since (kept)                  *)
(*   overtaken: history, for get_schema: a delete_schema of the id has     *)
(*             succeeded while the call was running                        *)
(*   accepted: history: the requests of the call the service carried out   *)

Response(status, json, has_message, has_incompatibilities, retry_after, rev) ==
    [status |-> status, json |-> json,
     has_message |-> has_message, message |-> "no such schema",
     has_incompatibilities |-> has_incompatibilities,
     incompatibilities |-> <<"a", "b">>,
     text |-> CASE json = "object" -> "{...}" [] json = "array" -> "[...]"
                [] OTHER -> "<html>",
     retry_after |-> retry_after, rev |-> rev,
     accepted |-> is_success(status)]

Timeout == Response(0, "invalid", FALSE, FALSE, <<>>, 0)

\* a request that timed out while the client waited for the response
\* (httpx.ReadTimeout, a TimeoutException): the service had received the
\* request and carried it out
AcceptedTimeout == [Timeout EXCEPT !.accepted = TRUE]

\* no response: the request was not sent, or was cancelled
NoResponse == Response(-1, "invalid", FALSE, FALSE, <<>>, 0)

NoValue == [url |-> "", rev |-> 0]

NoResult == [kind |-> "none", value |-> NoValue, exc |-> NoExc]

Ok(value) == [kind |-> "ok", value |-> value, exc |-> NoExc]

Err(e) == [kind |-> "exc", value |-> NoValue, exc |-> e]

NoExpect == [on |-> FALSE, kept |-> FALSE, value |-> NoValue]

NoLast == [set |-> FALSE, value |-> NoValue, left |-> 0, gone |-> FALSE]

IdleCall ==
    [op |-> "", schema_id |-> "", namespace |-> "", name |-> "",
     version |-> <<>>, use_cache |-> FALSE, pc |-> "idle", outcomes |-> <<>>,
     response |-> NoResponse, raised |-> NoExc, sleep |-> 0, result |-> NoResult, age |-> -1,
     evicted |-> FALSE, expect |-> NoExpect, overtaken |-> FALSE,
     accepted |-> 0]

\* the operations that carry a schema id, and those that address a
\* namespace and name
IdOps == {"get_schema", "validate_data", "check_compatibility", "delete_schema"}

\* the number of the attempt a running call is in (tenacity's attempt_number)
AttemptNumber(call) == Len(call.outcomes) + 1

\* the network requests the call has issued so far
Net(call) == Len(call.outcomes) + (IF call.pc = "inflight" THEN 1 ELSE 0)

\* the path each operation requests
Url(call) ==
    CASE call.op = "register_schema" -> "/api/v1/schemas"
      [] call.op = "get_schema" -> "/api/v1/schemas/" \o call.schema_id
      [] call.op = "get_schema_by_version" ->
            "/api/v1/schemas/" \o call.namespace \o "/" \o call.name
                \o "/versions/" \o Str(call.version)
      [] call.op = "validate_data" -> "/api/v1/validate"
      [] call.op = "check_compatibility" -> "/api/v1/compatibility/check"
      [] call.op = "search_schemas" -> "/api/v1/search"
      [] call.op = "list_versions" ->
            "/api/v1/schemas/" \o call.namespace \o "/" \o call.name \o "/versions"
      [] call.op = "delete_schema" -> "/api/v1/schemas/" \o call.schema_id
      [] OTHER -> "/health"

\* the cache key a call reads before it goes to the network ("" when the
\* operation does not read the cache)
ReadKey(call) ==
    CASE call.op = "get_schema" /\ call.use_cache -> IdKey(call.schema_id)
      [] call.op = "get_schema_by_version" ->
            VersionKey(call.namespace, call.name, call.version)
      [] OTHER -> ""

\* get_schema line 212, get_schema_by_version line 255: the cache check
CacheHit(call, c) == ReadKey(call) # "" /\ Contains(c, ReadKey(call))

\* the key a successful register_schema or delete_schema invalidates
WriteKey(call) ==
    CASE call.op = "register_schema" -> RegisterKey(call.namespace, call.name)
      [] call.op = "delete_schema" -> IdKey(call.schema_id)
      [] OTHER -> ""

\* a get_schema that fetches and returns without caching the record
CacheAfterSuccessNoStore(call, value, c) ==
    CASE call.op \in {"register_schema", "delete_schema"} ->
            Evict(c, WriteKey(call))
      [] call.op = "get_schema_by_version" ->
            SetItem(c, VersionKey(call.namespace, call.name, call.version),
                    value)
      [] OTHER -> c

\* a get_schema that caches the record whatever use_cache says
CacheAfterSuccessAlwaysStore(call, value, c) ==
    CASE call.op \in {"register_schema", "delete_schema"} ->
            Evict(c, WriteKey(call))
      [] call.op = "get_schema" -> SetItem(c, IdKey(call.schema_id), value)
      [] call.op = "get_schema_by_version" ->
            SetItem(c, VersionKey(call.namespace, call.name, call.version),
                    value)
      [] OTHER -> c

\* a get_schema_by_version that caches under the key register_schema
\* invalidates
CacheAfterSuccessMisKeyed(call, value, c) ==
    CASE call.op \in {"register_schema", "delete_schema"} ->
            Evict(c, WriteKey(call))
      [] call.op = "get_schema" ->
            IF call.use_cache THEN SetItem(c, IdKey(call.schema_id), value)
            ELSE c
      [] call.op = "get_schema_by_version" ->
            SetItem(c, RegisterKey(call.namespace, call.name), value)
      [] OTHER -> c

\* a client that also caches what the operations without a cache return
CacheAfterSuccessCachesAll(call, value, c) ==
    CASE call.op \in {"register_schema", "delete_schema"} ->
            Evict(c, WriteKey(call))
      [] call.op = "get_schema" ->
            IF call.use_cache THEN SetItem(c, IdKey(call.schema_id), value)
            ELSE c
      [] call.op = "get_schema_by_version" ->
            SetItem(c, VersionKey(call.namespace, call.name, call.version),
                    value)
      [] OTHER -> SetItem(c, Url(call), value)

\* the cache after a successful response, per operation
CacheAfterSuccess(call, value, c) ==
    CASE call.op = "register_schema" -> Evict(c, WriteKey(call))
      [] call.op = "get_schema" ->
            IF call.use_cache THEN SetItem(c, IdKey(call.schema_id), value)
            ELSE c
      [] call.op = "get_schema_by_version" ->
            SetItem(c, VersionKey(call.namespace, call.name, call.version),
                    value)
      [] call.op = "delete_schema" -> Evict(c, WriteKey(call))
      [] OTHER -> c

\* an invalidation that runs although the request has failed
CacheAfterErrorEvicts(call, e, c) ==
    IF WriteKey(call) # "" THEN Evict(c, WriteKey(call)) ELSE c

\* the cache after an attempt raised e: the exception leaves the function
\* at the await or in _handle_response_error, before any statement that
\* writes the cache
CacheAfterError(call, e, c) == c

\* history: the ids whose entry a cache write pushed out for lack of room
Pushed(c, c2) ==
    {k \in Keys(Expire(c)) : ~HasKey(c2, k)}

MarkGone(lg, ks) ==
    [i \in DOMAIN lg |->
        IF lg[i].set /\ IdKey(i) \in ks THEN [lg[i] EXCEPT !.gone = TRUE]
        ELSE lg[i]]

----------------------------------------------------------------------------
(* Inputs.                                                                 *)

Callers == {1}

Ids == {"a", "b"}
Namespaces == {"ns"}
Names == {"n"}

\* versions asked of get_schema_by_version
GetVersions == {<<"1", ".", "0", ".", "0">>}

\* versions given to Schema(...)
SchemaVersions ==
    {<<"1", ".", "0", ".", "0">>, <<"1", ".", "0">>, <<"1", ".", ".", "0">>,
     <<"1", ".", "x", ".", "0">>, <<"1", ".", "0", ".", "sup2">>}

\* values given as max_retries (3 is the default)
MaxRetriesChoices == {1, 3, 5}

\* successful responses: the service's record has one of two revisions
Successes == {Response(200, "object", FALSE, FALSE, <<>>, rev) : rev \in {1, 2}}

\* error responses: every status with every kind of body, and 429 with
\* every kind of Retry-After header
ErrorStatuses == {400, 401, 403, 404, 409, 429, 500, 503}

ErrorBodies ==
    {<<"object", TRUE, FALSE>>, <<"object", FALSE, FALSE>>,
     <<"object", TRUE, TRUE>>, <<"array", FALSE, FALSE>>,
     <<"invalid", FALSE, FALSE>>}

Failures ==
    {Response(st, b[1], b[2], b[3], <<>>, 0) :
        st \in ErrorStatuses, b \in ErrorBodies}
    \cup {Response(429, "object", TRUE, FALSE, ra, 0) :
            ra \in {<<"5">>, <<"x">>}}

Responses == Successes \cup Failures \cup {Timeout}

\* the responses followed where the cache is the subject
CacheResponses ==
    Successes \cup {Response(st, "object", TRUE, FALSE, <<>>, 0) : st \in {404, 500}}

\* the responses followed where two callers share the client
ConcResponses ==
    Successes \cup {Response(404, "object", TRUE, FALSE, <<>>, 0)}

----------------------------------------------------------------------------
(* Actions.                                                                *)

Init ==
    /\ max_retries = 3
    /\ cache = <<>>
    /\ calls = [c \in Callers |-> IdleCall]
    /\ closed = FALSE
    /\ lastGet = [i \in Ids |-> NoLast]

Free(c) == calls[c].pc \in {"idle", "done"}

NewCall(op, schema_id, namespace, name, version, use_cache) ==
    [IdleCall EXCEPT !.op = op, !.schema_id = schema_id,
                     !.namespace = namespace, !.name = name,
                     !.version = version, !.use_cache = use_cache]

\* the retry decorator after an attempt raised e: sleep and try again when
\* e is retried and attempts are left, else the call ends with an exception
AfterRaise(call, e) ==
    IF ShouldRetry(e) /\ ~ShouldStop(AttemptNumber(call))
    THEN [call EXCEPT !.pc = "backoff", !.raised = e,
                      !.sleep = Wait(AttemptNumber(call))]
    ELSE [call EXCEPT !.pc = "done", !.raised = e,
                      !.result = Err(IF ShouldRetry(e) THEN Exhausted(e)
                                     ELSE e)]

\* one run of the decorated function's body up to its first await: the
\* cache check of the two cached reads, else the request is sent; a closed
\* httpx.AsyncClient sends nothing and raises RuntimeError
Attempt(c, call) ==
    IF CacheHit(call, cache)
    THEN LET k == ReadKey(call)
             e == Entry(cache, k)
         IN  /\ cache' = GetItem(cache, k)
             /\ calls' = [calls EXCEPT ![c] =
                    [call EXCEPT !.pc = "done", !.result = Ok(e.value),
                                 !.age = cache_ttl - e.left]]
    ELSE IF closed
    THEN /\ cache' = cache
         /\ calls' = [calls EXCEPT ![c] =
                AfterRaise([call EXCEPT !.response = NoResponse],
                           Raised("RuntimeError"))]
    ELSE /\ cache' = cache
         /\ calls' = [calls EXCEPT ![c] = [call EXCEPT !.pc = "inflight"]]

\* Schema(namespace, name, version, ...) and register_schema(schema): the
\* field validator runs in the constructor, before register_schema is called
register_schema(c, namespace, name, version) ==
    /\ Free(c)
    /\ IF validate_version(version)
       THEN /\ Attempt(c, NewCall("register_schema", "", namespace, name,
                                  version, FALSE))
            /\ lastGet' = [i \in Ids |-> NoLast]
       ELSE /\ calls' = [calls EXCEPT ![c] =
                   [NewCall("register_schema", "", namespace, name, version,
                            FALSE)
                       EXCEPT !.pc = "done",
                              !.raised = Raised("ValidationError"),
                              !.result = Err(Raised("ValidationError"))]]
            /\ UNCHANGED <<cache, lastGet>>
    /\ UNCHANGED <<max_retries, closed>>

get_schema(c, schema_id, use_cache) ==
    /\ Free(c)
    /\ LET lg == lastGet[schema_id]
           on == use_cache /\ lg.set /\ lg.left > 0
       IN  Attempt(c, [NewCall("get_schema", schema_id, "", "", <<>>, use_cache)
                          EXCEPT !.expect =
                              IF on THEN [on |-> TRUE, kept |-> ~lg.gone,
                                          value |-> lg.value]
                              ELSE NoExpect])
    /\ UNCHANGED <<max_retries, closed, lastGet>>

get_schema_by_version(c, namespace, name, version) ==
    /\ Free(c)
    /\ Attempt(c, NewCall("get_schema_by_version", "", namespace, name,
                          version, FALSE))
    /\ UNCHANGED <<max_retries, closed, lastGet>>

delete_schema(c, schema_id) ==
    /\ Free(c)
    /\ Attempt(c, NewCall("delete_schema", schema_id, "", "", <<>>, FALSE))
    /\ lastGet' = [i \in Ids |-> NoLast]
    /\ UNCHANGED <<max_retries, closed>>

\* validate_data, check_compatibility: a schema id, no cache
IdCall(c, op, schema_id) ==
    /\ Free(c)
    /\ Attempt(c, NewCall(op, schema_id, "", "", <<>>, FALSE))
    /\ UNCHANGED <<max_retries, closed, lastGet>>

validate_data(c, schema_id) == IdCall(c, "validate_data", schema_id)

check_compatibility(c, schema_id) == IdCall(c, "check_compatibility", schema_id)

list_versions(c, namespace, name) ==
    /\ Free(c)
    /\ Attempt(c, NewCall("list_versions", "", namespace, name, <<>>, FALSE))
    /\ UNCHANGED <<max_retries, closed, lastGet>>

search_schemas(c) ==
    /\ Free(c)
    /\ Attempt(c, NewCall("search_schemas", "", "", "", <<>>, FALSE))
    /\ UNCHANGED <<max_retries, closed, lastGet>>

health_check(c) ==
    /\ Free(c)
    /\ Attempt(c, NewCall("health_check", "", "", "", <<>>, FALSE))
    /\ UNCHANGED <<max_retries, closed, lastGet>>

\* history: the running get_schema calls of the id whose delete_schema has
\* just succeeded are marked overtaken
Overtake(cs, call) ==
    IF call.op # "delete_schema" THEN cs
    ELSE [x \in DOMAIN cs |->
             IF /\ cs[x].op = "get_schema"
                /\ cs[x].schema_id = call.schema_id
                /\ cs[x].pc \in {"inflight", "backoff"}
             THEN [cs[x] EXCEPT !.overtaken = TRUE]
             ELSE cs[x]]

\* the awaited request ends: with response r, or with a timeout
Respond(c, r) ==
    LET call == calls[c]
        e == IF r.status = 0 THEN TimeoutException ELSE HandleResponseError(r)
        outs == Append(call.outcomes, r.status)
        value == [url |-> Url(call), rev |-> r.rev]
        c2 == CacheAfterSuccess(call, value, cache)
        marked == MarkGone(lastGet, Pushed(cache, c2))
    IN  /\ call.pc = "inflight"
        /\ IF e = NoExc
           THEN /\ cache' = c2
                /\ calls' = Overtake([calls EXCEPT ![c] =
                       [call EXCEPT !.pc = "done", !.outcomes = outs,
                                    !.response = r,
                                    !.accepted = @ + 1,
                                    !.raised = NoExc, !.result = Ok(value),
                                    !.evicted = WriteKey(call) # ""
                                        /\ Contains(cache, WriteKey(call))]],
                       call)
                /\ lastGet' =
                       IF call.op = "get_schema" /\ call.use_cache
                       THEN [marked EXCEPT ![call.schema_id] =
                                [set |-> TRUE, value |-> value, left |-> cache_ttl,
                                 gone |-> FALSE]]
                       ELSE marked
           ELSE /\ cache' = CacheAfterError(call, e, cache)
                /\ calls' = [calls EXCEPT ![c] =
                       [AfterRaise(call, e) EXCEPT
                            !.outcomes = outs, !.response = r,
                            !.accepted = IF r.accepted THEN @ + 1 ELSE @]]
                /\ UNCHANGED lastGet
        /\ UNCHANGED <<max_retries, closed>>

\* the backoff sleep is over: tenacity calls the function again
Wake(c) ==
    /\ calls[c].pc = "backoff"
    /\ calls[c].sleep = 0
    /\ Attempt(c, calls[c])
    /\ UNCHANGED <<max_retries, closed, lastGet>>

clear_cache ==
    /\ cache' = <<>>
    /\ lastGet' = MarkGone(lastGet, Keys(cache))
    /\ UNCHANGED <<max_retries, closed, calls>>

\* the task that awaits the call is cancelled (by the caller, or by a
\* timeout the caller put around the call): asyncio raises CancelledError at
\* the await the call is suspended in.  In the request, the attempt raises
\* it and the retry decorator decides as for every exception of an attempt;
\* in the sleep between attempts it leaves the decorator at once.
Cancel(c) ==
    LET call == calls[c]
        e == Raised("CancelledError")
    IN  /\ call.pc \in {"inflight", "backoff"}
        /\ calls' = [calls EXCEPT ![c] =
               IF call.pc = "inflight"
               THEN [AfterRaise(call, e) EXCEPT
                        !.outcomes = Append(call.outcomes, -1),
                        !.response = NoResponse]
               ELSE [call EXCEPT !.pc = "done", !.raised = e,
                                 !.sleep = 0, !.result = Err(e)]]
        /\ UNCHANGED <<max_retries, cache, closed, lastGet>>

\* close(): the HTTP client is closed; the cache and the calls are as they
\* were.  No request is in flight (the caller closes between its calls, or
\* while a call sleeps between attempts).
close ==
    /\ \A c \in DOMAIN calls : calls[c].pc # "inflight"
    /\ closed' = TRUE
    /\ UNCHANGED <<max_retries, cache, calls, lastGet>>

\* one unit of time passes
Tick ==
    /\ cache' = [i \in DOMAIN cache |->
                    [cache[i] EXCEPT !.left = Max(0, @ - 1)]]
    /\ calls' = [c \in DOMAIN calls |->
                    [calls[c] EXCEPT !.sleep = Max(0, @ - 1)]]
    /\ lastGet' = [i \in DOMAIN lastGet |->
                      IF lastGet[i].set /\ lastGet[i].left > 1
                      THEN [lastGet[i] EXCEPT !.left = @ - 1]
                      ELSE NoLast]
    /\ UNCHANGED <<max_retries, closed>>

\* the cache under every operation that reads or writes it
Next ==
    \/ \E c \in Callers, ns \in Namespaces, n \in Names,
          v \in {<<"1", ".", "0", ".", "0">>, <<"1", ".", "0">>} :
           register_schema(c, ns, n, v)
    \/ \E c \in Callers, i \in Ids, uc \in BOOLEAN : get_schema(c, i, uc)
    \/ \E c \in Callers, ns \in Namespaces, n \in Names, v \in GetVersions :
           get_schema_by_version(c, ns, n, v)
    \/ \E c \in Callers, i \in Ids : delete_schema(c, i)
    \/ \E c \in Callers, r \in CacheResponses : Respond(c, r)
    \/ \E c \in Callers : Wake(c)
    \/ clear_cache
    \/ Tick

Spec == Init /\ [][Next]_vars

\* every operation under every response, for every max_retries
InitRetry ==
    /\ max_retries \in MaxRetriesChoices
    /\ cache = <<>>
    /\ calls = [c \in Callers |-> IdleCall]
    /\ closed = FALSE
    /\ lastGet = [i \in Ids |-> NoLast]

NextRetry ==
    \/ \E c \in Callers, ns \in Namespaces, n \in Names, v \in SchemaVersions :
           register_schema(c, ns, n, v)
    \/ \E c \in Callers : get_schema(c, "a", FALSE)
    \/ \E c \in Callers, ns \in Namespaces, n \in Names, v \in GetVersions :
           get_schema_by_version(c, ns, n, v)
    \/ \E c \in Callers : delete_schema(c, "a")
    \/ \E c \in Callers : validate_data(c, "a")
    \/ \E c \in Callers : check_compatibility(c, "a")
    \/ \E c \in Callers, ns \in Namespaces, n \in Names : list_versions(c, ns, n)
    \/ \E c \in Callers : search_schemas(c)
    \/ \E c \in Callers : health_check(c)
    \/ \E c \in Callers, r \in Responses : Respond(c, r)
    \/ \E c \in Callers : Wake(c)
    \/ Tick

SpecRetry == InitRetry /\ [][NextRetry]_vars

\* the operations on a client that is closed at some point
NextClose ==
    \/ \E c \in Callers, i \in Ids, uc \in BOOLEAN : get_schema(c, i, uc)
    \/ \E c \in Callers, ns \in Namespaces, n \in Names, v \in GetVersions :
           get_schema_by_version(c, ns, n, v)
    \/ \E c \in Callers : health_check(c)
    \/ \E c \in Callers, r \in CacheResponses : Respond(c, r)
    \/ \E c \in Callers : Wake(c)
    \/ close
    \/ Tick

SpecClose == Init /\ [][NextClose]_vars

\* two callers (tasks of one event loop) share the client.  A step is the
\* code one task runs between two awaits: no other task runs in between.
ConcCallers == {1, 2}

\* the id both callers read and delete
ConcIds == {"a"}

InitConc ==
    /\ max_retries = 3
    /\ cache = <<>>
    /\ calls = [c \in ConcCallers |-> IdleCall]
    /\ closed = FALSE
    /\ lastGet = [i \in Ids |-> NoLast]

NextConc ==
    \/ \E c \in ConcCallers, ns \in Namespaces, n \in Names, v \in GetVersions :
           register_schema(c, ns, n, v)
    \/ \E c \in ConcCallers, i \in ConcIds : get_schema(c, i, TRUE)
    \/ \E c \in ConcCallers, ns \in Namespaces, n \in Names,
          v \in GetVersions : get_schema_by_version(c, ns, n, v)
    \/ \E c \in ConcCallers, i \in ConcIds : delete_schema(c, i)
    \/ \E c \in ConcCallers, r \in ConcResponses : Respond(c, r)
    \/ clear_cache
    \/ Tick

SpecConc == InitConc /\ [][NextConc]_vars

\* reads whose arguments hold the characters the cache keys are built
\* with: namespaces and names with a dot, and an id spelt like the key of a
\* version
KeyIds == {"a", "a.c:1.0.0"}

KeyNamespaces == {"a", "a.b"}

KeyNames == {"c", "b.c"}

InitKeys ==
    /\ max_retries = 3
    /\ cache = <<>>
    /\ calls = [c \in Callers |-> IdleCall]
    /\ closed = FALSE
    /\ lastGet = [i \in KeyIds |-> NoLast]

NextKeys ==
    \/ \E c \in Callers, i \in KeyIds : get_schema(c, i, TRUE)
    \/ \E c \in Callers, ns \in KeyNamespaces, n \in KeyNames,
          v \in GetVersions : get_schema_by_version(c, ns, n, v)
    \/ \E c \in Callers, r \in Successes : Respond(c, r)
    \/ Tick

SpecKeys == InitKeys /\ [][NextKeys]_vars

\* register_schema against a service that may carry out a request whose
\* response the client does not get in time
PostResponses ==
    Successes
        \cup {Response(409, "object", TRUE, TRUE, <<>>, 0), Timeout,
              AcceptedTimeout}

NextPost ==
    \/ \E c \in Callers, ns \in Namespaces, n \in Names, v \in SchemaVersions :
           register_schema(c, ns, n, v)
    \/ \E c \in Callers, r \in PostResponses : Respond(c, r)
    \/ \E c \in Callers : Wake(c)
    \/ Tick

SpecPost == InitRetry /\ [][NextPost]_vars

\* the calls of a caller who may cancel them
NextCancel ==
    \/ \E c \in Callers, i \in Ids, uc \in BOOLEAN : get_schema(c, i, uc)
    \/ \E c \in Callers : health_check(c)
    \/ \E c \in Callers, r \in CacheResponses \cup {Timeout} : Respond(c, r)
    \/ \E c \in Callers : Wake(c)
    \/ \E c \in Callers : Cancel(c)
    \/ Tick

SpecCancel == Init /\ [][NextCancel]_vars

----------------------------------------------------------------------------
(* Claims about the cache, under Spec.                                     *)

RegisterSucceeds(c) ==
    /\ calls[c].op = "register_schema" /\ calls[c].pc = "inflight"
    /\ calls'[c].pc = "done" /\ calls'[c].result.kind = "ok"

\* C1: a successful register of (namespace, name) leaves no cached entry
\* for that namespace and name, so that the next get_schema_by_version of
\* the key misses.  The code deletes the key "namespace.name", under which
\* nothing is ever cached.
C1_RegisterEvictsVersions ==
    [][\A c \in Callers :
          RegisterSucceeds(c) =>
              \A v \in GetVersions :
                  ~Contains(cache', VersionKey(calls[c].namespace,
                                               calls[c].name, v))]_vars

\* C2: no read is served a cache entry as old as the time-to-live or older:
\* a call that ends without a network request was served an entry younger
\* than cache_ttl.
C2_NeverServedStale ==
    \A c \in Callers :
        /\ calls[c].age # -1 => calls[c].age < cache_ttl
        /\ (calls[c].result.kind = "ok" /\ Net(calls[c]) = 0) =>
               (calls[c].age >= 0 /\ calls[c].age < cache_ttl)

\* C2 witness: a read of a key whose entry is in the cache but expired has
\* gone to the network.
C2_ExpiredEntryRefetched ==
    \E c \in Callers :
        /\ calls[c].pc = "inflight" /\ ReadKey(calls[c]) # ""
        /\ HasKey(cache, ReadKey(calls[c]))
        /\ ~Contains(cache, ReadKey(calls[c]))

ServedAgain(call) ==
    /\ call.pc = "done"
    /\ call.result = Ok(call.expect.value)
    /\ Net(call) = 0

\* C3 as stated: a get_schema(id, use_cache=True) that follows a successful
\* one within the time-to-live, with no delete or register call in between,
\* returns the same record without a network request, whatever else
\* happened in between.
C3_RepeatServedFromCache ==
    \A c \in Callers : calls[c].expect.on => ServedAgain(calls[c])

\* C3 amended: ... with no delete or register call, no clear_cache call and
\* no eviction of the id's entry for lack of room in between, returns the
\* same record without a network request.
C3_RepeatServedUnlessClearedOrEvicted ==
    \A c \in Callers : calls[c].expect.kept => ServedAgain(calls[c])

\* C3 witness: a repeated get_schema was served the cached record.
C3_RepeatWasServed ==
    \E c \in Callers :
        /\ calls[c].op = "get_schema" /\ calls[c].expect.kept
        /\ calls[c].pc = "done" /\ calls[c].age >= 0
        /\ calls[c].result.value.rev = 2

DeleteSucceeds(c) ==
    /\ calls[c].op = "delete_schema" /\ calls[c].pc = "inflight"
    /\ calls'[c].pc = "done" /\ calls'[c].result.kind = "ok"

----------------------------------------------------------------------------
(* Claims about retries and errors, under SpecRetry.                       *)

\* a timeout or an HTTP status >= 500
Transient(status) == status = 0 \/ status >= 500

AllTransient(outcomes) ==
    \A i \in 1..Len(outcomes) : Transient(outcomes[i])

\* C4: an attempt that ends with 400, 401, 403, 404, 409, 429 or any other
\* non-transient error is the call's last: no attempt follows it and the
\* caller receives the error that attempt raised.
C4_DefinitiveErrorNotRetried ==
    \A c \in Callers :
        LET call == calls[c]
            n == Len(call.outcomes)
        IN  \A i \in 1..n :
                (~Transient(call.outcomes[i]) /\ ~is_success(call.outcomes[i])) =>
                    /\ i = n
                    /\ call.pc = "done"
                    /\ Net(call) = n
                    /\ call.raised # NoExc
                    /\ call.result = Err(call.raised)

\* C4 witness: a call ended on its first attempt with the not-found error
\* of a 404.
C4_NotFoundOnFirstAttempt ==
    \E c \in Callers :
        /\ calls[c].pc = "done" /\ calls[c].outcomes = <<404>>
        /\ calls[c].result.kind = "exc"
        /\ calls[c].result.exc.kind = "SchemaNotFoundError"

\* C5: an attempt follows only attempts that timed out or got a status
\* >= 500, a call makes at most 3 network attempts, and a successful attempt
\* is the last one and gives the call its result.
C5_RetryOnlyTransientAtMostThree ==
    \A c \in Callers :
        LET call == calls[c]
            n == Len(call.outcomes)
        IN  /\ Net(call) <= 3
            /\ \A i \in 1..(Net(call) - 1) : Transient(call.outcomes[i])
            /\ call.pc = "backoff" => AllTransient(call.outcomes)
            /\ \A i \in 1..n :
                   is_success(call.outcomes[i]) =>
                       /\ i = n
                       /\ call.pc = "done"
                       /\ call.result.kind = "ok"
                       /\ call.result.value.url = Url(call)

\* C5 witness: a call succeeded on its third attempt, after a timeout and
\* a 500.
C5_SucceededOnThirdAttempt ==
    \E c \in Callers :
        /\ calls[c].pc = "done" /\ calls[c].outcomes = <<0, 500, 200>>
        /\ calls[c].result.kind = "ok"

\* C6: when every attempt failed transiently and the attempts are used up,
\* the caller receives the transient failure itself: ServerError for a
\* status >= 500, the timeout for a timeout.
C6_ExhaustedRaisesTransientError ==
    \A c \in Callers :
        (/\ calls[c].pc = "done"
         /\ Len(calls[c].outcomes) >= 1
         /\ AllTransient(calls[c].outcomes)) =>
            /\ calls[c].result.kind = "exc"
            /\ calls[c].result.exc = calls[c].raised
            /\ calls[c].result.exc.kind \in {"ServerError", "TimeoutException"}

\* C7: a client constructed with max_retries = N makes exactly N network
\* attempts when all of them fail transiently, and never more than N.
C7_AttemptsFollowMaxRetries ==
    \A c \in Callers :
        /\ Net(calls[c]) <= max_retries
        /\ (/\ calls[c].pc = "done"
            /\ Len(calls[c].outcomes) >= 1
            /\ AllTransient(calls[c].outcomes)) =>
               Net(calls[c]) = max_retries

\* three dot-separated non-negative integers
IsUint(part) ==
    /\ part # <<>>
    /\ \A i \in 1..Len(part) :
           part[i] \in {"0", "1", "2", "3", "4", "5", "6", "7", "8", "9"}

IsUintTriple(v) ==
    /\ Len(split(v)) = 3
    /\ \A i \in 1..3 : IsUint(split(v)[i])

\* C8: register with a version that is not three dot-separated non-negative
\* integers fails with SchemaValidationError and sends nothing; with a
\* version of that form the call goes to the network.
C8_MalformedVersionIsValidationFailure ==
    \A c \in Callers :
        calls[c].op = "register_schema" =>
            IF IsUintTriple(calls[c].version)
            THEN Net(calls[c]) >= 1
            ELSE /\ calls[c].pc = "done"
                 /\ Net(calls[c]) = 0
                 /\ calls[c].result.kind = "exc"
                 /\ calls[c].result.exc.kind = "SchemaValidationError"

\* C10: a 404 answer to an operation called with a schema id gives a
\* SchemaNotFoundError that carries the id the caller passed.
C10_NotFoundCarriesCallerId ==
    \A c \in Callers :
        LET call == calls[c]
            n == Len(call.outcomes)
        IN  (call.op \in IdOps /\ call.pc = "done" /\ n >= 1
                /\ call.outcomes[n] = 404) =>
                /\ call.result.kind = "exc"
                /\ call.result.exc.kind = "SchemaNotFoundError"
                /\ call.result.exc.schema_id = call.schema_id

----------------------------------------------------------------------------
(* Claims about a closed client, under SpecClose.                          *)

\* a step in which caller c begins a call
Begins(c) ==
    /\ Free(c)
    /\ calls'[c] # calls[c]

\* C11: every operation begun after close() ends with an error, returns no
\* record and sends no request, a read of a key that is still cached
\* included.  The code keeps no closed flag: the two cached reads look in
\* the cache before they touch the closed HTTP client.
C11_ClosedClientRefusesEveryCall ==
    [][\A c \in Callers :
          (closed /\ Begins(c)) =>
              /\ calls'[c].pc = "done"
              /\ calls'[c].result.kind = "exc"
              /\ Net(calls'[c]) = 0]_vars

----------------------------------------------------------------------------
(* Claims about the mapping of error responses, under SpecRetry.  The      *)
(* attempt's exception (raised) is compared with the response it answers.  *)

\* the latest attempt of the call received an HTTP response that is no
\* success
GotError(call) ==
    /\ call.response.status > 0
    /\ ~is_success(call.response.status)

\* the class the error taxonomy gives a status
KindOfStatus(status) ==
    CASE status = 401 -> "AuthenticationError"
      [] status = 403 -> "AuthorizationError"
      [] status = 404 -> "SchemaNotFoundError"
      [] status = 409 -> "IncompatibleSchemaError"
      [] status = 429 -> "RateLimitError"
      [] status >= 500 -> "ServerError"
      [] OTHER -> "SchemaRegistryError"

\* C12: an error response whose body is a JSON object raises the class its
\* status alone decides (401, 403, 404, 409, 429, 500 and above; every other
\* status SchemaRegistryError with that status and the message), and the
\* call does not return a result.
C12_ErrorKindFollowsStatus ==
    \A c \in Callers :
        LET call == calls[c]
            r == call.response
        IN  (GotError(call) /\ r.json = "object") =>
                /\ call.raised.kind = KindOfStatus(r.status)
                /\ call.raised.kind = "SchemaRegistryError" =>
                       /\ call.raised.status_code = r.status
                       /\ call.raised.message = MessageOf(r)
                /\ call.result.kind # "ok"

\* C13: a 400 answer raises SchemaValidationError, the class of a malformed
\* version.
C13_BadRequestIsValidationFailure ==
    \A c \in Callers :
        (GotError(calls[c]) /\ calls[c].response.status = 400) =>
            calls[c].raised.kind = "SchemaValidationError"

\* C14: a 409 answer raises IncompatibleSchemaError with the body's
\* incompatibilities list as it is, or with the one-element list of the
\* message when the body has no such field.
C14_ConflictCarriesIncompatibilities ==
    \A c \in Callers :
        LET call == calls[c]
            r == call.response
        IN  (GotError(call) /\ r.status = 409) =>
                /\ call.raised.kind = "IncompatibleSchemaError"
                /\ call.raised.incompatibilities =
                       IF r.json = "object" /\ r.has_incompatibilities
                       THEN r.incompatibilities ELSE <<MessageOf(r)>>

\* C15: an error response whose body is not JSON raises the class of its
\* status, which carries the raw text of the body (RateLimitError has no
\* field for it).
C15_NonJsonBodyKeepsTaxonomy ==
    \A c \in Callers :
        LET call == calls[c]
            r == call.response
        IN  (GotError(call) /\ r.json = "invalid") =>
                /\ call.raised.kind = KindOfStatus(r.status)
                /\ \/ call.raised.message = r.text
                   \/ call.raised.schema_id = r.text
                   \/ call.raised.incompatibilities = <<r.text>>
                   \/ call.raised.kind = "RateLimitError"

\* C16: a 429 answer raises RateLimitError whatever its Retry-After header
\* is: retry_after is None without the header and 5 for the header "5".
C16_RateLimitedWhateverTheHeader ==
    \A c \in Callers :
        LET call == calls[c]
            r == call.response
        IN  (GotError(call) /\ r.status = 429) =>
                /\ call.raised.kind = "RateLimitError"
                /\ r.retry_after = <<>> => call.raised.retry_after = <<>>
                /\ r.retry_after = <<"5">> => call.raised.retry_after = <<5>>

----------------------------------------------------------------------------
(* Claims about the operations without a cache, under SpecRetry.           *)

UncachedOps ==
    {"validate_data", "check_compatibility", "search_schemas",
     "list_versions", "health_check"}

\* C17: validate_data, check_compatibility, search_schemas, list_versions
\* and health_check send a request whatever the cache holds, and no step of
\* such a call (its start, a response or timeout, a new attempt) changes the
\* cache, whether the call succeeds or fails.
C17_UncachedOpsBypassCache ==
    [][\A c \in Callers :
          /\ (Begins(c) /\ calls'[c].op \in UncachedOps) =>
                 /\ calls'[c].pc = "inflight"
                 /\ cache' = cache
          /\ (calls[c].op \in UncachedOps /\ ~Free(c)
                  /\ calls'[c].pc # calls[c].pc) =>
                 /\ cache' = cache
                 /\ calls'[c].pc = "done" => Net(calls'[c]) >= 1]_vars

\* C17 witness: an operation without a cache has returned from the network
\* while the cache holds a live entry.
C17_UncachedCallWithFilledCache ==
    \E c \in Callers :
        /\ calls[c].op \in UncachedOps
        /\ calls[c].pc = "done"
        /\ calls[c].result.kind = "ok"
        /\ Net(calls[c]) >= 1
        /\ LiveKeys(cache) # {}

----------------------------------------------------------------------------
(* Claims about cancellation, under SpecCancel.                            *)

\* C18: a call cancelled during a request or during the sleep between two
\* attempts ends there with the cancellation: it is done, its result is the
\* CancelledError, it sleeps no more and sends no further request.
C18_CancelledCallEndsAtOnce ==
    \A c \in Callers :
        calls[c].raised.kind = "CancelledError" =>
            /\ calls[c].pc = "done"
            /\ calls[c].sleep = 0
            /\ calls[c].result = Err(calls[c].raised)
            /\ \A i \in 1..Len(calls[c].outcomes) :
                   calls[c].outcomes[i] = -1 => i = Len(calls[c].outcomes)

\* C18 witness: a call was cancelled after its first attempt had failed with
\* a retried error, with attempts left.
C18_CancelledWithAttemptsLeft ==
    \E c \in Callers :
        /\ calls[c].raised.kind = "CancelledError"
        /\ Len(calls[c].outcomes) \in 1..2
        /\ Transient(calls[c].outcomes[1])

----------------------------------------------------------------------------
(* Claims about two callers on one client, under SpecConc.                 *)

\* entry e holds a record the service returned for the request its key
\* names: a get_schema of an id, or a get_schema_by_version of a namespace,
\* name and version
EntryAnswersItsKey(e) ==
    /\ e.value.rev \in {r.rev : r \in Successes}
    /\ \/ \E i \in Ids :
              /\ e.key = IdKey(i)
              /\ e.value.url =
                     Url(NewCall("get_schema", i, "", "", <<>>, TRUE))
       \/ \E ns \in Namespaces, n \in Names, v \in GetVersions :
              /\ e.key = VersionKey(ns, n, v)
              /\ e.value.url =
                     Url(NewCall("get_schema_by_version", "", ns, n, v, FALSE))

\* C19: whatever the interleaving of get_schema, get_schema_by_version,
\* register_schema, delete_schema and clear_cache of two callers, every
\* cache entry is a whole record the service returned for the request the
\* entry's key names, no key has two entries, and the cache holds no more
\* than cache_maxsize entries.
C19_EntriesAnswerTheirKeys ==
    /\ Len(cache) <= cache_maxsize
    /\ \A i \in DOMAIN cache :
           /\ EntryAnswersItsKey(cache[i])
           /\ \A j \in DOMAIN cache : cache[j].key = cache[i].key => j = i

\* C19 witness: caller 1 is waiting for the record of an id it did not find
\* in the cache, and meanwhile caller 2 has fetched and cached the record of
\* the same id.
C19_OverlappingReadsOfOneKey ==
    /\ calls[1].op = "get_schema" /\ calls[1].pc = "inflight"
    /\ calls[2].op = "get_schema" /\ calls[2].pc = "done"
    /\ calls[2].schema_id = calls[1].schema_id
    /\ calls[2].result.kind = "ok" /\ Net(calls[2]) = 1
    /\ Contains(cache, IdKey(calls[1].schema_id))
    /\ Entry(cache, IdKey(calls[1].schema_id)).left = cache_ttl

----------------------------------------------------------------------------
(* Claims about get_schema and its use_cache flag, under Spec.             *)

\* a step of the call of caller c: it begins, or it moves on
StepOf(c) == Begins(c) \/ (~Free(c) /\ calls'[c].pc # calls[c].pc)

\* the request of caller c's get_schema is answered with a record
GetSucceeds(c) ==
    /\ calls[c].op = "get_schema" /\ calls[c].pc = "inflight"
    /\ calls'[c].pc = "done" /\ calls'[c].result.kind = "ok"

\* C20: get_schema with use_cache=False sends a request also when the id is
\* cached and live, and no step of the call changes the cache.  get_schema
\* with use_cache=True that fetched the record stores that record under the
\* key of the id with a fresh time-to-live; every other key that is in the
\* cache afterwards has the entry it had, and a key that is gone was expired
\* or made room in a full cache.
C20_UseCacheFlagGovernsTheCache ==
    [][\A c \in Callers :
          /\ (StepOf(c) /\ calls'[c].op = "get_schema"
                  /\ ~calls'[c].use_cache) =>
                 /\ cache' = cache
                 /\ Begins(c) => calls'[c].pc = "inflight"
          /\ (GetSucceeds(c) /\ calls[c].use_cache) =>
                 LET k == IdKey(calls[c].schema_id)
                 IN  /\ HasKey(cache', k)
                     /\ Entry(cache', k).value = calls'[c].result.value
                     /\ Entry(cache', k).value.url = Url(calls[c])
                     /\ Entry(cache', k).left = cache_ttl
                     /\ \A o \in (Keys(cache) \cup Keys(cache')) \ {k} :
                            IF HasKey(cache', o)
                            THEN /\ HasKey(cache, o)
                                 /\ Entry(cache', o) = Entry(cache, o)
                            ELSE \/ Entry(cache, o).left = 0
                                 \/ Len(Expire(cache)) >= cache_maxsize]_vars

\* C20 witness: a get_schema with use_cache=False has fetched a record from
\* the network while the cache holds a live entry of the id with another
\* record, and the entry is still there.
C20_BypassedLiveEntry ==
    \E c \in Callers :
        /\ calls[c].op = "get_schema" /\ ~calls[c].use_cache
        /\ calls[c].pc = "done" /\ calls[c].result.kind = "ok"
        /\ Net(calls[c]) = 1
        /\ Contains(cache, IdKey(calls[c].schema_id))
        /\ Entry(cache, IdKey(calls[c].schema_id)).value
               # calls[c].result.value

----------------------------------------------------------------------------
(* Claims about the backoff, under SpecRetry.                              *)

\* C21: the sleep that follows the k-th failed attempt (before retry k) is
\* min(10, 2^(k-1)): 1 after the first attempt and 2 after the second, never
\* below 1 or above 10.  A sleep begins only after a request has failed, the
\* next attempt begins only when the sleep is over, and a call that is not
\* between two attempts (it has just begun, or it is done) has no sleep
\* left: none before the first attempt, none after the last.
C21_BackoffDelays ==
    [][\A c \in Callers :
          /\ (calls'[c].pc = "backoff" /\ calls[c].pc # "backoff") =>
                 LET k == Len(calls'[c].outcomes)
                 IN  /\ calls[c].pc = "inflight"
                     /\ k \in 1..2
                     /\ calls'[c].sleep = Min(10, Pow2(k - 1))
                     /\ calls'[c].sleep = (IF k = 1 THEN 1 ELSE 2)
                     /\ calls'[c].sleep >= 1 /\ calls'[c].sleep <= 10
          /\ (calls[c].pc = "backoff" /\ calls'[c].pc # "backoff") =>
                 calls[c].sleep = 0
          /\ calls'[c].pc # "backoff" => calls'[c].sleep = 0]_vars

\* C21 witness: a call sleeps 2 time units after its second failed attempt.
C21_SleepsTwoBeforeThirdAttempt ==
    \E c \in Callers :
        /\ calls[c].pc = "backoff"
        /\ Len(calls[c].outcomes) = 2
        /\ calls[c].sleep = 2

----------------------------------------------------------------------------
(* Claims about delete_schema and the reads around it, under SpecConc.     *)

\* C22: a get_schema that was running while a delete_schema of its id
\* succeeded does not put its record into the cache when its response
\* arrives: the key of the id is as it was before that step (absent after
\* the delete's eviction, or the entry a later get_schema has cached).
C22_OvertakenReadDoesNotReinsert ==
    [][\A c \in ConcCallers :
          (calls[c].overtaken /\ calls[c].pc = "inflight"
               /\ calls'[c].pc = "done") =>
              LET k == IdKey(calls[c].schema_id)
              IN  IF HasKey(cache, k)
                  THEN HasKey(cache', k) /\ Entry(cache', k) = Entry(cache, k)
                  ELSE ~HasKey(cache', k)]_vars

----------------------------------------------------------------------------
(* Claims about delete_schema and the reads after it, under Spec.          *)

\* the schema_id of the record the service returns for a namespace, name
\* and version (GetSchemaResponse.schema_id): the one version followed here
\* is the schema with the id "a"
SchemaIdAt(namespace, name, version) == "a"

\* C23: the read that follows a successful delete_schema of an id is not
\* served from the cache, be it get_schema of the id or
\* get_schema_by_version of the namespace, name and version of that schema:
\* it sends a request.
C23_DeletedSchemaNotServedFromCache ==
    [][\A c \in Callers :
          LET del == calls[c]
              read == calls'[c]
          IN  (/\ del.op = "delete_schema" /\ del.pc = "done"
               /\ del.result.kind = "ok"
               /\ Begins(c)
               /\ \/ read.op = "get_schema" /\ read.schema_id = del.schema_id
                  \/ /\ read.op = "get_schema_by_version"
                     /\ SchemaIdAt(read.namespace, read.name, read.version)
                            = del.schema_id)
              => read.pc = "inflight"]_vars

----------------------------------------------------------------------------
(* Claims about the cache keys, under SpecKeys.                            *)

\* C24: the key of get_schema(id) is never the key of a
\* get_schema_by_version(namespace, name, version), and two different
\* namespace, name and version never have one key, so that every read that
\* returns a record returns the record of its own request: the one the
\* service gives at the path the call requests.
C24_ReadsReturnTheirOwnRecord ==
    \A c \in Callers :
        (calls[c].pc = "done" /\ calls[c].result.kind = "ok") =>
            calls[c].result.value.url = Url(calls[c])

----------------------------------------------------------------------------
(* Claims about failed operations and the cache, under Spec.               *)

\* the call of caller c has ended with a record or a result
EndsWell(call) == call.pc = "done" /\ call.result.kind = "ok"

\* C25: only the step in which a call ends well changes the cache.  Every
\* other step of a call (it begins and sends its request, a request fails,
\* it sleeps and tries again, it ends with an error) leaves the cache as it
\* is: a failed get_schema or get_schema_by_version inserts nothing and a
\* failed register_schema or delete_schema evicts nothing, on whichever
\* attempt it fails.
C25_FailedCallLeavesCache ==
    [][\A c \in Callers :
          (StepOf(c) /\ ~EndsWell(calls'[c])) => cache' = cache]_vars

\* C25 witness: a delete_schema has ended with an error on its second
\* attempt while the entry of its id is in the cache and live.
C25_FailedDeleteKeptEntry ==
    \E c \in Callers :
        /\ calls[c].op = "delete_schema"
        /\ calls[c].pc = "done" /\ calls[c].result.kind = "exc"
        /\ Net(calls[c]) = 2
        /\ Contains(cache, IdKey(calls[c].schema_id))

----------------------------------------------------------------------------
(* Claims about register_schema and the service, under SpecPost.           *)

\* C26: the service carries out the POST of one register_schema call at
\* most once: once it has carried out a request of the call, the call sends
\* no further request, and a call that ends with an error has had no
\* request carried out.
C26_PostCarriedOutAtMostOnce ==
    \A c \in Callers :
        calls[c].op = "register_schema" =>
            /\ calls[c].accepted <= 1
            /\ calls[c].accepted = 1 => calls[c].pc # "inflight"
            /\ (calls[c].pc = "done" /\ calls[c].result.kind = "exc") =>
                   calls[c].accepted = 0

=============================================================================
